---- MODULE Spec2Model ----
(***************************************************************************)
(* Habit tracker (Django + DRF + Celery): the habit store behind the       *)
(* HabitViewSet CRUD endpoints, the validation rules of Habit.clean and    *)
(* HabitSerializer.validate, and the periodic reminder task                *)
(* send_reminder_notifications with its Telegram transport.                *)
(***************************************************************************)
EXTENDS Integers, FiniteSets, Sequences, TLC

VARIABLES
    habits,     \* the Habit table: pk -> row
    nextId,     \* the next auto-increment pk of the Habit table
    users,      \* the User table with the one-to-one UserProfile: username -> row
    token,      \* settings.TELEGRAM_BOT_TOKEN ("" when not configured)
    response,   \* the last API request and the response it got
    clock,      \* timezone.now(): day, hour, minute
    tick,       \* the running send_reminder_notifications call
    fired,      \* how many calls of the task were started in the current (day, hour, minute)
    delivered,  \* the pks a reminder was delivered for in the current (day, hour, minute)
    weekly,     \* the running send_weekly_report call
    race        \* the update requests in flight between their validation and their save

vars == <<habits, nextId, users, token, response, clock, tick, fired, delivered,
          weekly, race>>

tickVars == <<clock, tick, fired, delivered>>

jobVars == <<weekly, race>>

----------------------------------------------------------------------------
(* Bounds *)

\* at most this many habits are ever created (pks 1..MaxHabits)
MaxHabits == 2

\* at most this many ticks are started within one (day, hour, minute)
MaxFired == 2

\* the clock runs over days 1..MaxDay
MaxDay == 2

----------------------------------------------------------------------------
(* Values *)

\* related_habit = NULL (null=True), as a pk that no row has
NoHabit == 0

\* NULL of a nullable CharField (reward, telegram_id)
Null == "null"

\* request.user of a request without credentials
Anonymous == "anonymous"

HabitIds == 1..MaxHabits

\* a row's pk is in the table
Exists(id) == id \in DOMAIN habits

\* Python truthiness of a CharField value: None and "" are falsy
Truthy(s) == s # Null /\ s # ""

\* the accounts: is_active, and the one-to-one profile with its telegram_id
Users == {"ann", "bob", "cat", "dan"}

UserTable ==
    [u \in Users |->
        CASE u = "ann" -> [is_active |-> TRUE, has_profile |-> TRUE, telegram_id |-> "1001"]
          [] u = "bob" -> [is_active |-> TRUE, has_profile |-> FALSE, telegram_id |-> Null]
          [] u = "cat" -> [is_active |-> TRUE, has_profile |-> TRUE, telegram_id |-> ""]
          [] u = "dan" -> [is_active |-> FALSE, has_profile |-> TRUE, telegram_id |-> "1004"]]

\* times of day: hour, minute, second
Time(h, m, s) == [hour |-> h, minute |-> m, second |-> s]

Times == {Time(8, 0, 30), Time(8, 1, 0)}

\* the minutes at which the clock is observed
Minutes == {<<8, 0>>, <<8, 1>>}

----------------------------------------------------------------------------
(* Habit.clean: the storage-layer check. TRUE when clean() raises nothing. *)
\* rel_pleasant is related_habit.is_pleasant, read when related_habit is set
Clean(is_pleasant, reward, related_habit, rel_pleasant) ==
    /\ ~(is_pleasant /\ Truthy(reward))
    /\ ~(is_pleasant /\ related_habit # NoHabit)
    /\ ~(~is_pleasant /\ Truthy(reward) /\ related_habit # NoHabit)
    /\ ~(related_habit # NoHabit /\ ~rel_pleasant)

\* Habit.clean applied to a stored row
RowClean(id) ==
    LET h == habits[id] IN
    Clean(h.is_pleasant, h.reward, h.related_habit,
          IF Exists(h.related_habit) THEN habits[h.related_habit].is_pleasant ELSE FALSE)

----------------------------------------------------------------------------
(* The request payload: the fields the client sent, and their values. *)

FieldNames == {"time", "frequency", "duration", "is_pleasant", "reward",
               "related_habit", "is_public", "user"}

\* data.get(f, default)
Get(d, f, default) == IF f \in d.fields THEN d[f] ELSE default

\* validators of Habit.frequency
MinFrequency == 1
MaxFrequency == 7
\* validator of Habit.duration
MaxDuration == 2

\* Field-level validation of the ModelSerializer built from the model's fields:
\* required fields on a non-partial request, the validators, the pk lookup of
\* related_habit in Habit.objects.all().
FieldsValid(d, partial) ==
    /\ partial \/ {"time", "duration"} \subseteq d.fields
    /\ "frequency" \in d.fields =>
           d.frequency >= MinFrequency /\ d.frequency <= MaxFrequency
    /\ "duration" \in d.fields => d.duration >= 0 /\ d.duration <= MaxDuration
    /\ "related_habit" \in d.fields =>
           d.related_habit = NoHabit \/ Exists(d.related_habit)

\* HabitSerializer.validate(data): TRUE when it raises nothing. It reads the
\* request data only, never the instance being updated.
Validate(d) ==
    LET is_pleasant == Get(d, "is_pleasant", FALSE)
        reward == Get(d, "reward", Null)
        related_habit == Get(d, "related_habit", NoHabit)
    IN  /\ IF is_pleasant
              THEN ~Truthy(reward) /\ related_habit = NoHabit
              ELSE ~(Truthy(reward) /\ related_habit # NoHabit)
        /\ ~(related_habit # NoHabit /\ ~habits[related_habit].is_pleasant)

\* serializer.is_valid(): the fields first, validate() only when they pass
IsValid(d, partial) == FieldsValid(d, partial) /\ Validate(d)

\* the model's field defaults (is_pleasant, frequency, is_public; NULL for the
\* nullable reward and related_habit)
DefaultRow(u, id) ==
    [user |-> u, time |-> [hour |-> 0, minute |-> 0, second |-> 0],
     frequency |-> 1, duration |-> 0, is_pleasant |-> FALSE, reward |-> Null,
     related_habit |-> NoHabit, is_public |-> FALSE]

\* a serializer whose user field the client may write
SetAttrsUserWritable(row, d) ==
    [f \in DOMAIN row |-> IF f \in d.fields THEN d[f] ELSE row[f]]

\* ModelSerializer.update: setattr for every validated field; user is read-only
SetAttrs(row, d) ==
    [f \in DOMAIN row |->
        IF f \in d.fields /\ f # "user" THEN d[f] ELSE row[f]]

\* a queryset that leaves the visibility filter out
GetQuerysetAll(u) == DOMAIN habits

\* HabitViewSet.get_queryset: the requester's habits plus the public ones
GetQueryset(u) == {id \in DOMAIN habits : habits[id].user = u \/ habits[id].is_public}

\* a delete that cascades over related_habit
DeleteRowCascade(id) ==
    [k \in {j \in DOMAIN habits : j # id /\ habits[j].related_habit # id} |-> habits[k]]

\* on_delete=SET_NULL of related_habit, then the row is removed
DeleteRow(id) ==
    [k \in DOMAIN habits \ {id} |->
        IF habits[k].related_habit = id
           THEN [habits[k] EXCEPT !.related_habit = NoHabit]
           ELSE habits[k]]

Resp(op, u, id, status, body) ==
    [op |-> op, user |-> u, id |-> id, status |-> status, body |-> body]

----------------------------------------------------------------------------
(* The endpoints of HabitViewSet (a ModelViewSet, IsAuthenticated). *)

\* POST /habits/: perform_create saves with user=request.user
Create(u, d) ==
    /\ nextId <= MaxHabits
    /\ IF u = Anonymous
          THEN /\ response' = Resp("create", u, NoHabit, 401, {})
               /\ UNCHANGED <<habits, nextId>>
       ELSE IF ~IsValid(d, FALSE)
          THEN /\ response' = Resp("create", u, NoHabit, 400, {})
               /\ UNCHANGED <<habits, nextId>>
       ELSE /\ habits' = [k \in DOMAIN habits \cup {nextId} |->
                            IF k = nextId
                               THEN [SetAttrs(DefaultRow(u, nextId), d) EXCEPT !.user = u]
                               ELSE habits[k]]
            /\ nextId' = nextId + 1
            /\ response' = Resp("create", u, nextId, 201, {nextId})
    /\ UNCHANGED <<users, token, tickVars, jobVars>>

\* PUT /habits/<id>/ (partial = FALSE)
Update(u, id, d, partial) ==
    LET op == IF partial THEN "partial_update" ELSE "update" IN
    /\ IF u = Anonymous
          THEN response' = Resp(op, u, id, 401, {}) /\ UNCHANGED habits
       ELSE IF id \notin GetQueryset(u)
          THEN response' = Resp(op, u, id, 404, {}) /\ UNCHANGED habits
       ELSE IF ~IsValid(d, partial)
          THEN response' = Resp(op, u, id, 400, {}) /\ UNCHANGED habits
       ELSE /\ habits' = [habits EXCEPT ![id] = SetAttrs(habits[id], d)]
            /\ response' = Resp(op, u, id, 200, {id})
    /\ UNCHANGED <<nextId, users, token, tickVars, jobVars>>

\* PATCH /habits/<id>/: update() with partial=True
PartialUpdate(u, id, d) == Update(u, id, d, TRUE)

\* DELETE /habits/<id>/
Destroy(u, id) ==
    /\ IF u = Anonymous
          THEN response' = Resp("destroy", u, id, 401, {}) /\ UNCHANGED habits
       ELSE IF id \notin GetQueryset(u)
          THEN response' = Resp("destroy", u, id, 404, {}) /\ UNCHANGED habits
       ELSE /\ habits' = DeleteRow(id)
            /\ response' = Resp("destroy", u, id, 204, {})
    /\ UNCHANGED <<nextId, users, token, tickVars, jobVars>>

\* a user is deleted (admin, ORM): on_delete=CASCADE of Habit.user removes the
\* user's habits, each with the SET_NULL of the links to it; the profile goes
\* with the user
DeleteUser(u) ==
    /\ u \in DOMAIN users
    /\ LET gone == {id \in DOMAIN habits : habits[id].user = u}
       IN  habits' = [k \in DOMAIN habits \ gone |->
                        IF habits[k].related_habit \in gone
                           THEN [habits[k] EXCEPT !.related_habit = NoHabit]
                           ELSE habits[k]]
    /\ users' = [v \in DOMAIN users \ {u} |-> users[v]]
    /\ UNCHANGED <<nextId, token, response, tickVars, jobVars>>

\* GET /habits/<id>/
Retrieve(u, id) ==
    /\ IF u = Anonymous
          THEN response' = Resp("retrieve", u, id, 401, {})
       ELSE IF id \notin GetQueryset(u)
          THEN response' = Resp("retrieve", u, id, 404, {})
       ELSE response' = Resp("retrieve", u, id, 200, {id})
    /\ UNCHANGED <<habits, nextId, users, token, tickVars, jobVars>>

\* GET /habits/
List(u) ==
    /\ IF u = Anonymous
          THEN response' = Resp("list", u, NoHabit, 401, {})
          ELSE response' = Resp("list", u, NoHabit, 200, GetQueryset(u))
    /\ UNCHANGED <<habits, nextId, users, token, tickVars, jobVars>>

----------------------------------------------------------------------------
(* Two requests at once: an update is a read of the row, the validation and a
   save of every field, with nothing that keeps another request out between
   them (no transaction, no select_for_update). *)

\* the workers that serve requests side by side
Clients == {"c1", "c2"}

\* PATCH /habits/<id>/ up to serializer.is_valid(): get_object() reads the row
\* from get_queryset(), the payload is validated; the request is then in flight
\* with the instance it read
UpdateBegin(c, u, id, d) ==
    /\ c \notin DOMAIN race
    /\ IF id \notin GetQueryset(u)
          THEN response' = Resp("partial_update", u, id, 404, {}) /\ UNCHANGED race
       ELSE IF ~IsValid(d, TRUE)
          THEN response' = Resp("partial_update", u, id, 400, {}) /\ UNCHANGED race
       ELSE /\ race' = [k \in DOMAIN race \cup {c} |->
                          IF k = c
                             THEN [pc |-> "validated", user |-> u, id |-> id, d |-> d,
                                   instance |-> habits[id],
                                   seq |-> Cardinality(DOMAIN race)]
                             ELSE race[k]]
            /\ UNCHANGED response
    /\ UNCHANGED <<habits, nextId, users, token, tickVars, weekly>>

\* the rest of the request: ModelSerializer.update sets the validated fields
\* on the instance read before and instance.save() writes every field of it
UpdateSave(c) ==
    /\ c \in DOMAIN race
    /\ race[c].pc = "validated"
    /\ habits' = [habits EXCEPT ![race[c].id] = SetAttrs(race[c].instance, race[c].d)]
    /\ response' = Resp("partial_update", race[c].user, race[c].id, 200, {race[c].id})
    /\ race' = [race EXCEPT ![c].pc = "saved"]
    /\ UNCHANGED <<nextId, users, token, tickVars, weekly>>

----------------------------------------------------------------------------
(* send_telegram_message and send_reminder_notifications *)

\* what requests.post does: a response with status 200, another status, or an
\* exception (Timeout, another RequestException, any other Exception)
PostOutcomes == {"200", "500", "Timeout", "RequestException", "Exception"}

\* a send that takes every response for a success
SendTelegramMessageAnyStatus(post) ==
    IF ~Truthy(token)
       THEN [success |-> FALSE, posts |-> 0, logged |-> "no_token", post |-> "none"]
    ELSE IF post \in {"200", "500"}
       THEN [success |-> TRUE, posts |-> 1, logged |-> "ok", post |-> post]
    ELSE [success |-> FALSE, posts |-> 1, logged |-> post, post |-> post]

\* a send that posts without looking at the token
SendTelegramMessageUnchecked(post) ==
    IF post = "200"
       THEN [success |-> TRUE, posts |-> 1, logged |-> "ok", post |-> post]
    ELSE [success |-> FALSE, posts |-> 1, logged |-> post, post |-> post]

\* send_telegram_message(chat_id, text) -> bool, with the number of
\* requests.post calls it made, what requests.post did and what was logged
SendTelegramMessage(post) ==
    IF ~Truthy(token)
       THEN [success |-> FALSE, posts |-> 0, logged |-> "no_token", post |-> "none"]
    ELSE IF post = "200"
       THEN [success |-> TRUE, posts |-> 1, logged |-> "ok", post |-> post]
    ELSE [success |-> FALSE, posts |-> 1, logged |-> post, post |-> post]

\* a query that leaves the user__is_active condition out
DueQueryAnyOwner(hour, minute) ==
    {id \in DOMAIN habits :
        habits[id].time.hour = hour /\ habits[id].time.minute = minute}

\* the filter of the task's query: time__hour, time__minute, user__is_active
DueQuery(hour, minute) ==
    {id \in DOMAIN habits :
        /\ habits[id].time.hour = hour
        /\ habits[id].time.minute = minute
        /\ users[habits[id].user].is_active}

\* habit.user.profile.telegram_id when the user has a profile and the id is
\* truthy, None otherwise (hasattr() is False for a user without a profile, so
\* the DoesNotExist handler is never entered)
ResolveTelegramId(u) ==
    IF users[u].has_profile /\ Truthy(users[u].telegram_id)
       THEN users[u].telegram_id
       ELSE Null

\* no call of send_weekly_report is running
IdleWeekly ==
    [pc |-> "idle", todo |-> {}, calls |-> <<>>, posts |-> 0, failed |-> {},
     last |-> [user |-> "none", outcome |-> "none"]]

\* no update request is between its validation and its save
NoRace == <<>>

\* no call of the task is running; result is what the last call returned
IdleTick ==
    [pc |-> "idle", hour |-> 0, minute |-> 0, due |-> <<>>, todo |-> {},
     sent |-> 0, skipped |-> 0, calls |-> <<>>, posts |-> 0,
     last |-> [id |-> NoHabit, outcome |-> "none", post |-> "none"],
     result |-> [checked |-> 0, sent |-> 0, skipped |-> 0]]

\* the task is called: now is read, the queryset is evaluated by the for loop
\* (habit rows joined with their users), the counters start at 0
TickStart ==
    /\ tick.pc = "idle"
    /\ fired < MaxFired
    /\ fired' = fired + 1
    /\ LET due == DueQuery(clock.hour, clock.minute)
       IN  tick' = [IdleTick EXCEPT
                      !.pc = "loop", !.hour = clock.hour, !.minute = clock.minute,
                      !.due = [id \in due |-> habits[id]],
                      !.todo = due,
                      !.calls = [id \in due |-> 0]]
    /\ UNCHANGED <<habits, nextId, users, token, response, clock, delivered, jobVars>>

\* a loop body that leaves a habit without an address uncounted
LoopBodyUncounted(habit, post) ==
    LET telegram_id == ResolveTelegramId(habit.user)
        r == SendTelegramMessage(post)
    IN  IF Truthy(telegram_id)
           THEN [calls |-> 1, posts |-> r.posts,
                 sent |-> IF r.success THEN 1 ELSE 0,
                 skipped |-> IF r.success THEN 0 ELSE 1,
                 logged |-> r.logged, post |-> r.post]
           ELSE [calls |-> 0, posts |-> 0, sent |-> 0, skipped |-> 0,
                 logged |-> "no_address", post |-> "none"]

\* a loop body that sends whether or not an address was found
LoopBodyAlwaysSends(habit, post) ==
    LET r == SendTelegramMessage(post)
    IN  [calls |-> 1, posts |-> r.posts,
         sent |-> IF r.success THEN 1 ELSE 0,
         skipped |-> IF r.success THEN 0 ELSE 1,
         logged |-> r.logged, post |-> r.post]

\* a loop body that sends a second time when the first send failed
LoopBodyRetries(habit, post) ==
    LET telegram_id == ResolveTelegramId(habit.user)
        r == SendTelegramMessage(post)
    IN  IF Truthy(telegram_id)
           THEN [calls |-> IF r.success THEN 1 ELSE 2,
                 posts |-> IF r.success THEN r.posts ELSE 2 * r.posts,
                 sent |-> IF Truthy(token) THEN 1 ELSE 0,
                 skipped |-> IF Truthy(token) THEN 0 ELSE 1,
                 logged |-> r.logged, post |-> r.post]
           ELSE [calls |-> 0, posts |-> 0, sent |-> 0, skipped |-> 1,
                 logged |-> "no_address", post |-> "none"]

\* the body of the for loop for one habit of the evaluated queryset: the
\* telegram_id lookup, then the send or the skip. What it adds to the counters,
\* how often it called send_telegram_message and requests.post, what was logged.
LoopBody(habit, post) ==
    LET telegram_id == ResolveTelegramId(habit.user)
        r == SendTelegramMessage(post)
    IN  IF Truthy(telegram_id)
           THEN [calls |-> 1, posts |-> r.posts,
                 sent |-> IF r.success THEN 1 ELSE 0,
                 skipped |-> IF r.success THEN 0 ELSE 1,
                 logged |-> r.logged, post |-> r.post]
           ELSE [calls |-> 0, posts |-> 0, sent |-> 0, skipped |-> 1,
                 logged |-> "no_address", post |-> "none"]

\* one iteration of the for loop, for the habit id of the evaluated queryset
TickStep(id, post) ==
    /\ tick.pc = "loop"
    /\ id \in tick.todo
    /\ LET b == LoopBody(tick.due[id], post)
       IN  /\ tick' = [tick EXCEPT
                         !.todo = @ \ {id},
                         !.calls[id] = @ + b.calls,
                         !.posts = @ + b.posts,
                         !.sent = @ + b.sent,
                         !.skipped = @ + b.skipped,
                         !.last = [id |-> id, outcome |-> b.logged, post |-> b.post]]
           /\ delivered' = IF b.sent > 0 THEN delivered \cup {id} ELSE delivered
    /\ UNCHANGED <<habits, nextId, users, token, response, clock, fired, jobVars>>

\* an end of the task that counts the due habits with a second query
TickEndRequery ==
    /\ tick.pc = "loop"
    /\ tick.todo = {}
    /\ tick' = [IdleTick EXCEPT
                  !.result = [checked |-> Cardinality(DueQuery(tick.hour, tick.minute)),
                              sent |-> tick.sent, skipped |-> tick.skipped]]
    /\ UNCHANGED <<habits, nextId, users, token, response, clock, fired, delivered, jobVars>>

\* the loop is over: the result is built from habits.count() (the length of the
\* evaluated queryset), sent_count and skipped_count, logged and returned
TickEnd ==
    /\ tick.pc = "loop"
    /\ tick.todo = {}
    /\ tick' = [IdleTick EXCEPT
                  !.result = [checked |-> Cardinality(DOMAIN tick.due),
                              sent |-> tick.sent, skipped |-> tick.skipped]]
    /\ UNCHANGED <<habits, nextId, users, token, response, clock, fired, delivered, jobVars>>

\* minutes since the start of day 0
Instant(day, hour, minute) == (day * 24 + hour) * 60 + minute

\* time passes between two calls of the task: the clock reaches a later minute,
\* in which no tick was started and no reminder delivered yet
ClockAdvance(day, hm) ==
    /\ tick.pc = "idle"
    /\ Instant(day, hm[1], hm[2]) > Instant(clock.day, clock.hour, clock.minute)
    /\ clock' = [day |-> day, hour |-> hm[1], minute |-> hm[2]]
    /\ fired' = 0
    /\ delivered' = {}
    /\ UNCHANGED <<habits, nextId, users, token, response, tick, jobVars>>

----------------------------------------------------------------------------
(* send_weekly_report *)

\* a user query that leaves the is_active condition out
WeeklyUsersAll == DOMAIN users

\* User.objects.filter(is_active=True)
WeeklyUsers == {u \in DOMAIN users : users[u].is_active}

\* the task is called: the queryset of active users is evaluated by the for loop
WeeklyStart ==
    /\ weekly.pc # "loop"
    /\ weekly' = [IdleWeekly EXCEPT
                    !.pc = "loop",
                    !.todo = WeeklyUsers,
                    !.calls = [u \in DOMAIN users |-> 0]]
    /\ UNCHANGED <<habits, nextId, users, token, response, tickVars, race>>

\* the try block for one user: the telegram_id lookup, then the count of the
\* week's habits and the send, whose result is not looked at. How often it
\* called send_telegram_message and requests.post, and how the send went.
WeeklyBody(u, post) ==
    LET telegram_id == ResolveTelegramId(u)
        r == SendTelegramMessage(post)
    IN  IF Truthy(telegram_id)
           THEN [calls |-> 1, posts |-> r.posts, success |-> r.success,
                 logged |-> r.logged]
           ELSE [calls |-> 0, posts |-> 0, success |-> TRUE, logged |-> "no_address"]

\* one iteration of the for loop, for the user u of the evaluated queryset
WeeklyStep(u, post) ==
    /\ weekly.pc = "loop"
    /\ u \in weekly.todo
    /\ LET b == WeeklyBody(u, post)
       IN  weekly' = [weekly EXCEPT
                        !.todo = @ \ {u},
                        !.calls[u] = @ + b.calls,
                        !.posts = @ + b.posts,
                        !.failed = IF b.success THEN @ ELSE @ \cup {u},
                        !.last = [user |-> u, outcome |-> b.logged]]
    /\ UNCHANGED <<habits, nextId, users, token, response, tickVars, race>>

\* the loop is over: the task returns its fixed message
WeeklyEnd ==
    /\ weekly.pc = "loop"
    /\ weekly.todo = {}
    /\ weekly' = [weekly EXCEPT !.pc = "done"]
    /\ UNCHANGED <<habits, nextId, users, token, response, tickVars, race>>

----------------------------------------------------------------------------
(* Requests and initial states *)

\* the values a payload carries for the fields it does not send (never read)
Plain ==
    [time |-> Time(8, 0, 0), frequency |-> 1, duration |-> 1, is_pleasant |-> FALSE,
     reward |-> Null, related_habit |-> NoHabit, is_public |-> FALSE, user |-> "ann"]

\* the payloads that send any subset of the fields S, with values from the sets
\* of the record V
Payloads(S, V) ==
    {d \in [fields : SUBSET S, time : V.time, frequency : V.frequency,
            duration : V.duration, is_pleasant : V.is_pleasant, reward : V.reward,
            related_habit : V.related_habit, is_public : V.is_public, user : V.user] :
        \A f \in FieldNames \ d.fields : d[f] = Plain[f]}

\* a payload that also sends the required fields
WithRequired(d) == [d EXCEPT !.fields = @ \cup {"time", "duration"}]

\* the value sets of the requests about the reward, the link and the flag
RuleValues ==
    [time |-> {Plain.time}, frequency |-> {1}, duration |-> {1},
     is_pleasant |-> BOOLEAN, reward |-> {Null, "coffee"},
     related_habit |-> {NoHabit} \cup HabitIds, is_public |-> {FALSE},
     user |-> {"ann"}]

RulePayloads == Payloads({"is_pleasant", "reward", "related_habit"}, RuleValues)

RuleUsers == {"ann"}

\* the value sets of the requests about visibility and ownership
AccessValues ==
    [time |-> {Plain.time}, frequency |-> {1}, duration |-> {1},
     is_pleasant |-> {FALSE}, reward |-> {Null, "coffee"},
     related_habit |-> {NoHabit}, is_public |-> BOOLEAN, user |-> {"ann"}]

AccessPayloads == Payloads({"reward", "is_public"}, AccessValues)

AccessUsers == {"ann", "bob", Anonymous}

\* the value sets of the requests that name an owner
OwnerValues ==
    [time |-> {Plain.time}, frequency |-> {1}, duration |-> {1},
     is_pleasant |-> {FALSE}, reward |-> {Null},
     related_habit |-> {NoHabit}, is_public |-> BOOLEAN, user |-> {"ann", "bob"}]

OwnerPayloads == Payloads({"user", "is_public"}, OwnerValues)

InitStore ==
    /\ habits = <<>>
    /\ nextId = 1
    /\ users = UserTable
    /\ token = "7000:AAE"
    /\ response = Resp("none", Anonymous, NoHabit, 0, {})
    /\ clock = [day |-> 1, hour |-> 8, minute |-> 0]
    /\ tick = IdleTick
    /\ fired = 0
    /\ delivered = {}
    /\ weekly = IdleWeekly
    /\ race = NoRace

Init == InitStore

\* the API under requests about the reward, the link and the pleasant flag
Next ==
    \/ \E u \in RuleUsers, d \in RulePayloads : Create(u, WithRequired(d))
    \/ \E u \in RuleUsers, id \in HabitIds, d \in RulePayloads :
           Update(u, id, WithRequired(d), FALSE)
    \/ \E u \in RuleUsers, id \in HabitIds, d \in RulePayloads : PartialUpdate(u, id, d)
    \/ \E u \in RuleUsers, id \in HabitIds : Destroy(u, id)
    \/ \E u \in RuleUsers, id \in HabitIds : Retrieve(u, id)
    \/ \E u \in RuleUsers : List(u)

Spec == Init /\ [][Next]_vars

\* the API under requests of two users and of a client without credentials
NextAccess ==
    \/ \E u \in AccessUsers, d \in AccessPayloads : Create(u, WithRequired(d))
    \/ \E u \in AccessUsers, id \in HabitIds, d \in AccessPayloads :
           Update(u, id, WithRequired(d), FALSE)
    \/ \E u \in AccessUsers, id \in HabitIds, d \in AccessPayloads :
           PartialUpdate(u, id, d)
    \/ \E u \in AccessUsers, id \in HabitIds : Destroy(u, id)
    \/ \E u \in AccessUsers, id \in HabitIds : Retrieve(u, id)
    \/ \E u \in AccessUsers : List(u)

SpecAccess == Init /\ [][NextAccess]_vars

\* the API under requests that carry a user value
NextOwner ==
    \/ \E u \in AccessUsers, d \in OwnerPayloads : Create(u, WithRequired(d))
    \/ \E u \in AccessUsers, id \in HabitIds, d \in OwnerPayloads :
           Update(u, id, WithRequired(d), FALSE)
    \/ \E u \in AccessUsers, id \in HabitIds, d \in OwnerPayloads :
           PartialUpdate(u, id, d)
    \/ \E u \in AccessUsers, id \in HabitIds : Destroy(u, id)
    \/ \E u \in AccessUsers, id \in HabitIds : Retrieve(u, id)
    \/ \E u \in AccessUsers : List(u)

SpecOwner == Init /\ [][NextOwner]_vars

\* the requests that make a pleasant habit or set a link
LinkPayloads ==
    {d \in RulePayloads :
        \/ d.fields = {"is_pleasant"} /\ d.is_pleasant
        \/ d.fields = {"related_habit"} /\ d.related_habit # NoHabit}

\* the API and the deletion of users, under requests that make and link habits
NextDelete ==
    \/ \E u \in {"ann", "bob"} \cap DOMAIN users, d \in LinkPayloads :
           Create(u, WithRequired(d))
    \/ \E u \in {"ann", "bob"} \cap DOMAIN users, id \in HabitIds, d \in LinkPayloads :
           PartialUpdate(u, id, d)
    \/ \E u \in {"ann", "bob"} \cap DOMAIN users, id \in HabitIds : Destroy(u, id)
    \/ \E u \in {"ann", "bob"} : DeleteUser(u)

SpecDelete == Init /\ [][NextDelete]_vars

\* the value sets of the requests about frequency and duration: the ends of the
\* validators' ranges and the values next to them
FieldValues ==
    [time |-> {Plain.time},
     frequency |-> {MinFrequency - 1, MinFrequency, MaxFrequency, MaxFrequency + 1},
     duration |-> {0, 1, MaxDuration, MaxDuration + 1},
     is_pleasant |-> {FALSE}, reward |-> {Null}, related_habit |-> {NoHabit},
     is_public |-> {FALSE}, user |-> {"ann"}]

FieldPayloads == Payloads({"time", "frequency", "duration"}, FieldValues)

\* the API called with frequencies and durations in and out of range
NextFields ==
    \/ \E d \in FieldPayloads : Create("ann", d)
    \/ \E id \in HabitIds, d \in FieldPayloads : Update("ann", id, d, FALSE)
    \/ \E id \in HabitIds, d \in FieldPayloads : PartialUpdate("ann", id, d)
    \/ \E id \in HabitIds : Destroy("ann", id)

SpecFields == Init /\ [][NextFields]_vars

\* the stores the reminder task is run on: habits of every account, at the
\* times of day and with the frequencies below, all pks handed out
TickRows ==
    {[DefaultRow(u, NoHabit) EXCEPT !.time = t, !.frequency = f, !.duration = 1] :
        u \in Users, t \in Times, f \in {MinFrequency, MaxFrequency}}

TickStores == UNION {[S -> TickRows] : S \in SUBSET HabitIds}

InitTick ==
    /\ habits \in TickStores
    /\ nextId = MaxHabits + 1
    /\ users = UserTable
    /\ token \in {"", "7000:AAE"}
    /\ response = Resp("none", Anonymous, NoHabit, 0, {})
    /\ clock = [day |-> 1, hour |-> 8, minute |-> 0]
    /\ tick = IdleTick
    /\ fired = 0
    /\ delivered = {}
    /\ weekly = IdleWeekly
    /\ race = NoRace

\* the reminder task, called by the scheduler while time passes
NextTick ==
    \/ TickStart
    \/ \E id \in HabitIds, post \in PostOutcomes : TickStep(id, post)
    \/ TickEnd
    \/ \E day \in 1..MaxDay, hm \in Minutes : ClockAdvance(day, hm)

SpecTick == InitTick /\ [][NextTick]_vars

\* the accounts the weekly report is run on: every user is active or not, has
\* a profile with a telegram_id, a profile without one, or no profile
UserKinds ==
    {[is_active |-> a, has_profile |-> TRUE, telegram_id |-> t] :
        a \in BOOLEAN, t \in {"1001", ""}}
    \cup {[is_active |-> TRUE, has_profile |-> FALSE, telegram_id |-> Null]}

InitWeekly ==
    /\ habits = <<>>
    /\ nextId = 1
    /\ users \in [Users -> UserKinds]
    /\ token \in {"", "7000:AAE"}
    /\ response = Resp("none", Anonymous, NoHabit, 0, {})
    /\ clock = [day |-> 1, hour |-> 8, minute |-> 0]
    /\ tick = IdleTick
    /\ fired = 0
    /\ delivered = {}
    /\ weekly = IdleWeekly
    /\ race = NoRace

\* the weekly report, called by the scheduler
NextWeekly ==
    \/ WeeklyStart
    \/ \E u \in Users, post \in PostOutcomes : WeeklyStep(u, post)
    \/ WeeklyEnd

SpecWeekly == InitWeekly /\ [][NextWeekly]_vars

\* the value sets of the requests that set the time of day of a habit
TimeValues ==
    [time |-> Times, frequency |-> {1}, duration |-> {1}, is_pleasant |-> {FALSE},
     reward |-> {Null}, related_habit |-> {NoHabit}, is_public |-> {FALSE},
     user |-> {"ann"}]

TimePayloads == {d \in Payloads({"time"}, TimeValues) : d.fields = {"time"}}

\* the reminder task running while the API creates, retimes and deletes habits
NextTickStore ==
    \/ TickStart
    \/ \E id \in HabitIds, post \in {"200", "Timeout"} : TickStep(id, post)
    \/ TickEnd
    \/ \E d \in TimePayloads : Create("ann", WithRequired(d))
    \/ \E id \in HabitIds, d \in TimePayloads : PartialUpdate("ann", id, d)
    \/ \E id \in HabitIds : Destroy("ann", id)

SpecTickStore == Init /\ [][NextTickStore]_vars

\* two workers serving updates of the reward and of is_public at once
NextRace ==
    \/ \E d \in AccessPayloads : Create("ann", WithRequired(d))
    \/ \E c \in Clients, id \in HabitIds, d \in AccessPayloads : UpdateBegin(c, "ann", id, d)
    \/ \E c \in Clients : UpdateSave(c)

SpecRace == Init /\ [][NextRace]_vars

----------------------------------------------------------------------------
(* The rules of a well-formed habit, as claimed of every stored habit *)

\* C1: every stored habit with is_pleasant = true has no reward and no
\* related_habit, after any sequence of creates and full or partial updates.
C1_PleasantHasNoRewardNoLink ==
    \A id \in DOMAIN habits :
        habits[id].is_pleasant =>
            ~Truthy(habits[id].reward) /\ habits[id].related_habit = NoHabit

\* C2: no stored habit with is_pleasant = false has both a reward and a
\* related_habit.
C2_UsefulNotRewardAndLink ==
    \A id \in DOMAIN habits :
        ~habits[id].is_pleasant =>
            ~(Truthy(habits[id].reward) /\ habits[id].related_habit # NoHabit)

\* C3: every stored habit whose related_habit is set references a stored habit
\* whose is_pleasant is true, also after the referenced habit was updated.
C3_LinkTargetPleasant ==
    \A id \in DOMAIN habits :
        habits[id].related_habit # NoHabit =>
            /\ Exists(habits[id].related_habit)
            /\ habits[habits[id].related_habit].is_pleasant

----------------------------------------------------------------------------
(* Ownership and visibility *)

DetailOps == {"retrieve", "update", "partial_update", "destroy"}
WriteOps == {"update", "partial_update", "destroy"}

\* C4: an update or delete request by an authenticated user who is not the
\* habit's owner is refused and leaves the habit as it was, public or private.
C4_OnlyOwnerWrites ==
    [][\A id \in DOMAIN habits :
          (/\ response'.op \in WriteOps
           /\ response'.id = id
           /\ response'.user \in Users
           /\ response'.user # habits[id].user)
          => (/\ response'.status \in {403, 404}
              /\ id \in DOMAIN habits'
              /\ habits'[id] = habits[id])]_vars

\* C10: a list returns exactly the requester's habits and the public ones; a
\* retrieve succeeds exactly for those; a request on another user's private
\* habit gets the 404 of a pk that no habit has, and changes nothing.
C10_ReadOwnOrPublic ==
    [][LET u == response'.user
           id == response'.id
           visible == {k \in DOMAIN habits : habits[k].user = u \/ habits[k].is_public}
       IN  u \in Users =>
             /\ response'.op = "list" =>
                    response'.status = 200 /\ response'.body = visible
             /\ response'.op = "retrieve" =>
                    IF id \in visible
                       THEN response'.status = 200 /\ response'.body = {id}
                       ELSE response'.status = 404
             /\ (response'.op \in DetailOps /\ id \notin visible) =>
                    /\ response'.status = 404
                    /\ response'.body = {}
                    /\ habits' = habits]_vars

\* a request on another user's private habit was answered 404
C10_PrivateNotFound ==
    /\ response.op \in DetailOps
    /\ response.user \in Users
    /\ response.status = 404
    /\ Exists(response.id)
    /\ habits[response.id].user # response.user
    /\ ~habits[response.id].is_public

----------------------------------------------------------------------------
(* The reminder tick *)

\* the account has no address: no profile, or a profile without a telegram_id
NoAddress(u) == ~users[u].has_profile \/ users[u].telegram_id \in {Null, ""}

\* the step is the loop iteration of the tick for the habit id
Processes(id) == tick.pc = "loop" /\ id \in tick.todo /\ tick'.last.id = id /\ tick' # tick

\* C5: the summary a tick returns has checked equal to the number of due habits
\* its query found, and sent + skipped = checked.
C5_TallyAddsUp ==
    (tick.pc = "idle" /\ fired > 0) =>
        /\ tick.result.checked = Cardinality(DueQuery(clock.hour, clock.minute))
        /\ tick.result.sent + tick.result.skipped = tick.result.checked

\* a tick over two due habits, one delivered and one skipped, has returned
C5_TwoCheckedOneSent ==
    /\ tick.pc = "idle"
    /\ fired > 0
    /\ tick.result = [checked |-> 2, sent |-> 1, skipped |-> 1]

C7_NoAddressSkipped ==
    [][\A id \in HabitIds :
          (Processes(id) /\ NoAddress(tick.due[id].user)) =>
              /\ tick'.skipped = tick.skipped + 1
              /\ tick'.sent = tick.sent
              /\ tick'.calls[id] = 0
              /\ tick'.posts = tick.posts
              /\ tick'.last.outcome = "no_address"
              /\ tick'.pc = "loop"
              /\ tick'.todo = tick.todo \ {id}]_vars

\* a tick has skipped a habit of an account without a profile and one of an
\* account with an empty address, without any call of the transport
C7_BothKindsSkipped ==
    /\ tick.pc = "loop"
    /\ tick.todo = {}
    /\ tick.skipped = 2
    /\ tick.posts = 0
    /\ \E a, b \in DOMAIN tick.due :
           /\ ~users[tick.due[a].user].has_profile
           /\ users[tick.due[b].user].has_profile
           /\ users[tick.due[b].user].telegram_id = ""

\* C8: a send that fails (no token, timeout, a status other than 200, any
\* exception) adds one to skipped, nothing to sent, and the loop goes on with
\* the habits that are left; the tick returns only when none is left.
C8_FailedSendSkipped ==
    [][/\ \A id \in HabitIds :
             (/\ Processes(id)
              /\ tick'.calls[id] > tick.calls[id]
              /\ tick'.last.post # "200") =>
                 /\ tick'.skipped = tick.skipped + 1
                 /\ tick'.sent = tick.sent
                 /\ delivered' = delivered
                 /\ tick'.pc = "loop"
                 /\ tick'.todo = tick.todo \ {id}
       /\ (tick.pc = "loop" /\ tick'.pc = "idle") =>
             /\ tick.todo = {}
             /\ tick'.result.sent + tick'.result.skipped = Cardinality(DOMAIN tick.due)
      ]_vars

\* the first send of a tick timed out and another due habit is still to come
C8_TimeoutThenGoesOn ==
    /\ tick.pc = "loop"
    /\ tick.last.post = "Timeout"
    /\ tick.last.outcome = "Timeout"
    /\ tick.skipped = 1
    /\ tick.sent = 0
    /\ tick.todo # {}

\* the step delivers a reminder for the habit id
Delivers(id) == tick.pc = "loop" /\ tick'.last.id = id /\ tick'.sent > tick.sent

\* C9: the owner of a due habit never receives more than one reminder for that
\* habit for the same (hour, minute) of the same day, however often the task is
\* fired in that minute.
C9_AtMostOnePerMinute ==
    [][\A id \in HabitIds : Delivers(id) => id \notin delivered]_vars

\* C9, amended: a tick delivers at most one reminder per due habit, with one
\* call of the transport; a second reminder for the same (day, hour, minute)
\* comes only from a second tick fired in that minute.
C9_AtMostOnePerTick ==
    [][\A id \in HabitIds :
          Delivers(id) =>
              /\ tick'.sent = tick.sent + 1
              /\ tick.calls[id] = 0
              /\ tick'.calls[id] = 1
              /\ id \in delivered => fired > 1]_vars

\* a reminder was delivered by the only tick of its minute
C9_DeliveredOnce ==
    /\ fired = 1
    /\ delivered # {}
    /\ tick.pc = "idle"
    /\ tick.result.sent > 0

----------------------------------------------------------------------------
(* The owner of a habit *)

\* C11: the owner of a habit created through the API is the authenticated
\* requester, whatever user value the request carries, and no later update
\* changes the owner.
C11_OwnerIsRequester ==
    [][/\ (response'.op = "create" /\ response'.status = 201) =>
              /\ response'.id \notin DOMAIN habits
              /\ habits'[response'.id].user = response'.user
       /\ \A id \in DOMAIN habits \cap DOMAIN habits' :
              habits'[id].user = habits[id].user]_vars

\* an update by another user than the owner was applied to a habit, which still
\* belongs to the user who created it
C11_UpdatedByOtherStillOwned ==
    /\ response.op \in {"update", "partial_update"}
    /\ response.status = 200
    /\ Exists(response.id)
    /\ habits[response.id].user # response.user

----------------------------------------------------------------------------
(* Deletion *)

\* the row after is the row before, but for a link that was set to NULL
SameButLink(before, after) ==
    /\ \A f \in DOMAIN before \ {"related_habit"} : after[f] = before[f]
    /\ after.related_habit \in {before.related_habit, NoHabit}

\* C12: deleting a habit removes that habit only, sets the related_habit of the
\* habits that referenced it to NULL and changes nothing else; deleting a user
\* removes exactly that user's habits.
C12_DeleteNullsLinks ==
    [][/\ (response'.op = "destroy" /\ response'.status = 204 /\ users' = users) =>
             /\ DOMAIN habits' = DOMAIN habits \ {response'.id}
             /\ \A k \in DOMAIN habits' :
                    /\ SameButLink(habits[k], habits'[k])
                    /\ habits'[k].related_habit = NoHabit <=>
                           habits[k].related_habit \in {NoHabit, response'.id}
       /\ users' # users =>
             \E u \in DOMAIN users :
                 /\ DOMAIN users' = DOMAIN users \ {u}
                 /\ DOMAIN habits' = {k \in DOMAIN habits : habits[k].user # u}
                 /\ \A k \in DOMAIN habits' :
                        /\ SameButLink(habits[k], habits'[k])
                        /\ habits'[k].related_habit = NoHabit <=>
                               habits[k].related_habit \notin DOMAIN habits'
      ]_vars

\* a habit was deleted and the habit that referenced it is still stored, its
\* link NULL (no request of this specification stores a useful habit without one)
C12_LinkNulledByDelete ==
    /\ response.op = "destroy"
    /\ response.status = 204
    /\ DOMAIN users = Users
    /\ \E k \in DOMAIN habits :
           ~habits[k].is_pleasant /\ habits[k].related_habit = NoHabit

----------------------------------------------------------------------------
(* The weekly report *)

\* C13: in one run of the weekly report every active user with an address gets
\* exactly one send attempt as soon as the loop has reached them, nobody else
\* gets one, and the run ends only when every active user was processed,
\* whatever became of the sends to the others
C13_WeeklyOnePerAddressee ==
    weekly.pc # "idle" =>
        /\ \A u \in DOMAIN users :
               weekly.calls[u] =
                   IF users[u].is_active /\ ~NoAddress(u) /\ u \notin weekly.todo
                      THEN 1 ELSE 0
        /\ weekly.pc = "done" => weekly.todo = {}
        /\ weekly.todo \subseteq {u \in DOMAIN users : users[u].is_active}

\* a send failed, and a user processed after it got their attempt
C13_GoesOnAfterFailure ==
    /\ weekly.pc = "done"
    /\ weekly.failed # {}
    /\ weekly.last.user \notin weekly.failed
    /\ weekly.calls[weekly.last.user] = 1
    /\ \E u \in DOMAIN users : ~users[u].is_active /\ ~NoAddress(u)
    /\ \E u \in DOMAIN users : users[u].is_active /\ NoAddress(u)

----------------------------------------------------------------------------
(* The ranges of duration and frequency *)

\* C14: every stored habit, all of which passed the validation of a create or
\* an update, has a duration of at least 1 and at most 2 and a frequency
\* between 1 and 7
C14_DurationAndFrequencyInRange ==
    \A id \in DOMAIN habits :
        /\ habits[id].duration >= 1
        /\ habits[id].duration <= MaxDuration
        /\ habits[id].frequency >= MinFrequency
        /\ habits[id].frequency <= MaxFrequency

----------------------------------------------------------------------------
(* The two layers of validation *)

\* C15: the request layer accepts only what the storage-layer check accepts:
\* the habit stored by the create or update that was just answered with 201 or
\* 200 passes Habit.clean
C15_AcceptedWritePassesClean ==
    (/\ response.op \in {"create", "update", "partial_update"}
     /\ response.status \in {200, 201}) => RowClean(response.id)

----------------------------------------------------------------------------
(* Calls of the transport within a tick *)

\* C16: while a tick runs, send_telegram_message was called exactly once for
\* every habit of the due-set already processed whose owner has an address,
\* and not at all for any other habit of the due-set, whether or not the send
\* succeeded; requests.post was called at most once per such call
C16_OneCallPerAddressee ==
    tick.pc = "loop" =>
        /\ \A id \in DOMAIN tick.due :
               tick.calls[id] =
                   IF id \notin tick.todo /\ ~NoAddress(tick.due[id].user)
                      THEN 1 ELSE 0
        /\ tick.posts <= Cardinality({id \in DOMAIN tick.due : tick.calls[id] = 1})
        /\ tick.sent + tick.skipped = Cardinality(DOMAIN tick.due \ tick.todo)

\* the loop is through two due habits, the last send failed and was made once
C16_FailedSendNotRetried ==
    /\ tick.pc = "loop"
    /\ tick.todo = {}
    /\ Cardinality(DOMAIN tick.due) = 2
    /\ tick.last.outcome \in {"500", "Timeout", "RequestException", "Exception"}
    /\ tick.calls[tick.last.id] = 1
    /\ tick.skipped > 0

----------------------------------------------------------------------------
(* The tick and a store that changes under it *)

\* C17: a tick reads its due-set once, when it starts; while it runs the
\* due-set it works on does not change, whatever is created, deleted or
\* retimed in the store, only habits of that set are processed, and when it
\* ends every one of them was processed and checked is the size of that set
C17_TallyOfSnapshot ==
    [][/\ (tick.pc = "idle" /\ tick'.pc = "loop") =>
              /\ DOMAIN tick'.due = DueQuery(clock.hour, clock.minute)
              /\ tick'.todo = DOMAIN tick'.due
       /\ (tick.pc = "loop" /\ tick'.pc = "loop") =>
              /\ tick'.due = tick.due
              /\ tick'.todo \subseteq tick.todo
              /\ tick'.sent + tick'.skipped = Cardinality(DOMAIN tick.due \ tick'.todo)
       /\ (tick.pc = "loop" /\ tick'.pc = "idle") =>
              /\ tick.todo = {}
              /\ tick'.result.checked = Cardinality(DOMAIN tick.due)
              /\ tick'.result.sent + tick'.result.skipped = tick'.result.checked
      ]_vars

\* a tick is through its due-set, and the store no longer has the same habits
\* due: some of the snapshot are gone or retimed, or new ones are due
C17_StoreChangedUnderTick ==
    /\ tick.pc = "loop"
    /\ tick.todo = {}
    /\ tick.due # <<>>
    /\ Cardinality(DueQuery(tick.hour, tick.minute)) # Cardinality(DOMAIN tick.due)
    /\ \E id \in DOMAIN tick.due : ~Exists(id)

----------------------------------------------------------------------------
(* Updates of one habit at the same time *)

\* what two updates leave of a row when the second starts after the first ended
Sequential(base, d1, d2) == SetAttrs(SetAttrs(base, d1), d2)

\* C18: when two updates of the same habit have both been saved, the stored
\* habit is what the two updates give when applied one after the other, in one
\* of the two orders, to the row the earlier of them read, and it passes the
\* rules of Habit.clean
C18_UpdatesSerialize ==
    (/\ DOMAIN race = Clients
     /\ \A c \in Clients : race[c].pc = "saved"
     /\ race["c1"].id = race["c2"].id) =>
        LET first == CHOOSE c \in Clients : race[c].seq = 0
            base == race[first].instance
            id == race[first].id
        IN  /\ habits[id] \in {Sequential(base, race["c1"].d, race["c2"].d),
                               Sequential(base, race["c2"].d, race["c1"].d)}
            /\ RowClean(id)

----------------------------------------------------------------------------
(* A tick without the bot token *)

\* C19: when TELEGRAM_BOT_TOKEN is not set, no tick makes a request of the
\* network or counts a reminder as sent, every send it attempts is logged as
\* failed for the missing token, every habit it has processed is counted as
\* skipped, and the result it returns has sent = 0 and skipped = checked
C19_NoTokenAllSkipped ==
    ~Truthy(token) =>
        /\ tick.posts = 0
        /\ tick.sent = 0
        /\ tick.last.outcome \in {"none", "no_token", "no_address"}
        /\ tick.last.post = "none"
        /\ tick.pc = "loop" =>
               tick.skipped = Cardinality(DOMAIN tick.due \ tick.todo)
        /\ tick.result.sent = 0
        /\ tick.result.skipped = tick.result.checked

\* without a token a tick is through two due habits, to one of which a send
\* was attempted, and both are counted as skipped
C19_AttemptedWithoutToken ==
    /\ ~Truthy(token)
    /\ tick.pc = "loop"
    /\ tick.todo = {}
    /\ Cardinality(DOMAIN tick.due) = 2
    /\ \E id \in DOMAIN tick.due : tick.calls[id] = 1
    /\ tick.skipped = 2

----------------------------------------------------------------------------
(* Chains of related habits *)

\* C20: a habit that some stored habit names as its related_habit is stored
\* and has no related_habit of its own, so no habit is related to itself and
\* no chain of related habits is longer than one link
C20_NoChainOfLinks ==
    \A id \in DOMAIN habits :
        habits[id].related_habit # NoHabit =>
            /\ Exists(habits[id].related_habit)
            /\ habits[id].related_habit # id
            /\ habits[habits[id].related_habit].related_habit = NoHabit

====
